---- MODULE Spec2Model ----
(***************************************************************************)
(* Vibes Manager (src/vibes_manager.py): a console program that creates,   *)
(* deletes and lists "vibe" documents of one Cosmos DB container.          *)
(*                                                                         *)
(* Two specifications share the definitions of the facade methods:         *)
(*   Spec     the whole process: main(), the context manager, connect(),   *)
(*            the menu loop, the top-level exception handlers;             *)
(*   SpecApi  the facade methods of a connected VibesManager called        *)
(*            directly, in any order, with any argument.                   *)
(*                                                                         *)
(* Strings are sequences of character codes (32 is the space).  The store  *)
(* is the container's set of documents; the SDK calls are modelled by      *)
(* their contract: document-level atomicity, uniqueness of id (which is    *)
(* also the partition key), and the exception classes the code's except   *)
(* clauses name.                                                           *)
(***************************************************************************)
EXTENDS Integers, Sequences, FiniteSets

\* ---------------------------------------------------------------- bounds
\* uuid4() draws from NumIds values: a collision is possible and is then
\* refused by the store (CosmosResourceExistsError).
NumIds == 2
\* the clock (datetime.utcnow()) takes the instants 0..MaxTime
MaxTime == 2

Ids == 1..NumIds
\* the ids of the specification of the order of the list, which needs three
\* vibes stored at three instants
NumOrderIds == 3
OrderIds == 1..NumOrderIds
Times == 0..MaxTime

\* ---------------------------------------------------------------- strings
\* str.strip() removes whitespace; 32 is the one whitespace character of the
\* model, 97 ("a"), 100 ("d") and 103 ("g") are the others
IsSpace(c) == c = 32

RECURSIVE LStrip(_)
LStrip(s) == IF s = <<>> THEN s
             ELSE IF IsSpace(Head(s)) THEN LStrip(Tail(s)) ELSE s

RECURSIVE RStrip(_)
RStrip(s) == IF s = <<>> THEN s
             ELSE IF IsSpace(s[Len(s)]) THEN RStrip(SubSeq(s, 1, Len(s) - 1))
             ELSE s

\* str.strip()
Strip(s) == RStrip(LStrip(s))

\* what the operator can type at the three prompts of "Add a new vibe"
TitleInputs == { <<>>, <<32>>, <<97>>, <<32, 97>> }
DescriptionInputs == { <<>>, <<100, 32>> }
CategoryInputs == { <<103>> }

\* the arguments a direct caller passes to add_vibe
ApiTitles == { <<97>>, <<32, 97>> }
ApiDescriptions == { <<100, 32>> }

\* datetime.isoformat() of instant t.  An instant is a count of half
\* seconds; the date and the leading digits are the same for every instant
\* of the model and are left out.  isoformat() prints the fraction only when
\* the microsecond field is not zero: "...:0S" or "...:0S.500000".
isoformat(t) == <<48 + (t \div 2)>> \o (IF t % 2 = 1 THEN <<46, 53>> ELSE <<>>)

\* comparison of two strings as the ORDER BY of the query compares them
RECURSIVE StrLeq(_, _)
StrLeq(a, b) == IF a = <<>> THEN TRUE
                ELSE IF b = <<>> THEN FALSE
                ELSE IF Head(a) < Head(b) THEN TRUE
                ELSE IF Head(a) > Head(b) THEN FALSE
                ELSE StrLeq(Tail(a), Tail(b))

\* ------------------------------------------------------------- documents
VIBE == "vibe"

\* a document of another kind that shares the container
OtherDoc == [id |-> NumIds, title |-> <<>>, description |-> <<>>,
             category |-> <<>>, created_at |-> isoformat(0),
             updated_at |-> isoformat(0), type |-> "other"]

\* the container's content when the program starts
InitStores == { {}, {OtherDoc} }

StoreIds(s) == { d.id : d \in s }

\* the exception a store call raises when the service or the SDK fails:
\* CosmosHttpResponseError ("Http") or ValueError/KeyError ("Value")
Faults == { "none", "Http", "Value" }

\* ------------------------------------------------------------ SDK calls
\* ContainerProxy.create_item: one document inserted, or none
create_item(s, body, fault) ==
    IF fault # "none" THEN [store |-> s, exc |-> fault]
    ELSE IF body.id \in StoreIds(s) THEN [store |-> s, exc |-> "Exists"]
    ELSE [store |-> s \cup {body}, exc |-> "none"]

\* ContainerProxy.delete_item(item = id, partition_key = id)
delete_item(s, id, fault) ==
    IF fault # "none" THEN [store |-> s, exc |-> fault]
    ELSE IF id \notin StoreIds(s) THEN [store |-> s, exc |-> "NotFound"]
    ELSE [store |-> { d \in s : d.id # id }, exc |-> "none"]

\* SELECT * FROM c WHERE c.type = 'vibe'
Vibes(s) == { d \in s : d.type = VIBE }

Range(f) == { f[i] : i \in DOMAIN f }

\* ORDER BY c.created_at, without DESC
IsSortedAsc(q) ==
    \A i \in 1..(Len(q) - 1) : StrLeq(q[i].created_at, q[i + 1].created_at)

IsSortedDesc(q) ==
    \A i \in 1..(Len(q) - 1) : StrLeq(q[i + 1].created_at, q[i].created_at)

\* ... ORDER BY c.created_at DESC: every sequence the query may return
\* (documents with equal created_at come in any order)
QueryResults(s) ==
    { q \in [1..Cardinality(Vibes(s)) -> Vibes(s)] :
        Range(q) = Vibes(s) /\ IsSortedDesc(q) }

\* ------------------------------------------------------- facade methods
\* Each method is a function of the container's content, of the handle
\* self.container (cont: TRUE when it is not None) and of the outcome of the
\* one SDK call it makes.  The result holds the new content, the value
\* returned ("raise" when an exception leaves the method), the exception the
\* SDK call raised, the requests sent to the store and the lines printed.

\* the lines printed in style "red" with the mark of an error
ErrorLines == { "E:exists", "E:add_failed", "E:unexpected", "E:not_found",
                "E:remove_failed", "E:list_failed", "E:menu_remove_failed",
                "E:title_empty", "E:connect_exit" }

ErrorCount(out) == Cardinality({ i \in DOMAIN out : out[i] \in ErrorLines })

NewVibe(id, title, description, category, t1, t2) ==
    [id |-> id, title |-> title, description |-> description,
     category |-> category, created_at |-> isoformat(t1),
     updated_at |-> isoformat(t2), type |-> VIBE]

\* add_vibe written with upsert_item: a document with the same id is replaced
add_vibe_upsert(s, cont, id, title, description, category, t1, t2, fault) ==
    IF ~cont
    THEN [store |-> s, ret |-> "raise", exc |-> "Assertion",
          reqs |-> <<>>, out |-> <<>>]
    ELSE [store |-> IF fault # "none" THEN s
                    ELSE { d \in s : d.id # id } \cup
                         { NewVibe(id, title, description, category, t1, t2) },
          ret |-> IF fault = "none" THEN "True" ELSE "False",
          exc |-> fault,
          reqs |-> << [op |-> "create", id |-> id] >>,
          out |-> CASE fault = "none" -> << "added", "id" >>
                    [] fault = "Http" -> << "E:add_failed" >>
                    [] OTHER -> << "E:unexpected" >>]

\* add_vibe without the except clause of CosmosHttpResponseError
add_vibe_uncaught(s, cont, id, title, description, category, t1, t2, fault) ==
    IF ~cont
    THEN [store |-> s, ret |-> "raise", exc |-> "Assertion",
          reqs |-> <<>>, out |-> <<>>]
    ELSE LET r == create_item(s, NewVibe(id, title, description, category,
                                         t1, t2), fault)
         IN [store |-> r.store,
             ret |-> CASE r.exc = "none" -> "True"
                       [] r.exc = "Http" -> "raise"
                       [] OTHER -> "False",
             exc |-> r.exc,
             reqs |-> << [op |-> "create", id |-> id] >>,
             out |-> CASE r.exc = "none" -> << "added", "id" >>
                       [] r.exc = "Exists" -> << "E:exists" >>
                       [] r.exc = "Http" -> <<>>
                       [] OTHER -> << "E:unexpected" >>]

\* VibesManager.add_vibe; id is the value of uuid.uuid4(), t1 and t2 the two
\* readings of datetime.utcnow() (both fall in the same instant of the clock
\* of the model, whose instants are half seconds)
add_vibe(s, cont, id, title, description, category, t1, t2, fault) ==
    IF ~cont
    THEN [store |-> s, ret |-> "raise", exc |-> "Assertion",
          reqs |-> <<>>, out |-> <<>>]
    ELSE LET r == create_item(s, NewVibe(id, title, description, category,
                                         t1, t2), fault)
         IN [store |-> r.store,
             ret |-> IF r.exc = "none" THEN "True" ELSE "False",
             exc |-> r.exc,
             reqs |-> << [op |-> "create", id |-> id] >>,
             out |-> CASE r.exc = "none" -> << "added", "id" >>
                       [] r.exc = "Exists" -> << "E:exists" >>
                       [] r.exc = "Http" -> << "E:add_failed" >>
                       [] OTHER -> << "E:unexpected" >>]

\* remove_vibe that takes a missing document for a removed one
remove_vibe_lenient(s, cont, vibe_id, fault) ==
    IF ~cont
    THEN [store |-> s, ret |-> "raise", exc |-> "Assertion",
          reqs |-> <<>>, out |-> <<>>]
    ELSE LET r == delete_item(s, vibe_id, fault)
         IN [store |-> r.store,
             ret |-> IF r.exc \in { "none", "NotFound" } THEN "True"
                     ELSE "False",
             exc |-> r.exc,
             reqs |-> << [op |-> "delete", id |-> vibe_id] >>,
             out |-> CASE r.exc \in { "none", "NotFound" } -> << "removed" >>
                       [] r.exc = "Http" -> << "E:remove_failed" >>
                       [] OTHER -> << "E:unexpected" >>]

\* VibesManager.remove_vibe
remove_vibe(s, cont, vibe_id, fault) ==
    IF ~cont
    THEN [store |-> s, ret |-> "raise", exc |-> "Assertion",
          reqs |-> <<>>, out |-> <<>>]
    ELSE LET r == delete_item(s, vibe_id, fault)
         IN [store |-> r.store,
             ret |-> IF r.exc = "none" THEN "True" ELSE "False",
             exc |-> r.exc,
             reqs |-> << [op |-> "delete", id |-> vibe_id] >>,
             out |-> CASE r.exc = "none" -> << "removed" >>
                       [] r.exc = "NotFound" -> << "E:not_found" >>
                       [] r.exc = "Http" -> << "E:remove_failed" >>
                       [] OTHER -> << "E:unexpected" >>]

\* VibesManager.list_vibes; q is what query_items yields when it succeeds
list_vibes(s, cont, q, fault) ==
    IF ~cont
    THEN [items |-> <<>>, ret |-> "raise", exc |-> "Assertion",
          reqs |-> <<>>, out |-> <<>>]
    ELSE [items |-> IF fault = "none" THEN q ELSE <<>>,
          ret |-> "list",
          exc |-> fault,
          reqs |-> << [op |-> "query", id |-> 0] >>,
          out |-> CASE fault = "none" -> <<>>
                    [] fault = "Http" -> << "E:list_failed" >>
                    [] OTHER -> << "E:unexpected" >>]

\* VibesManager.display_vibes: the lines it prints
display_vibes(vibes) ==
    IF vibes = <<>> THEN << "no_vibes_found" >> ELSE << "table", "total" >>

\* ----------------------------------------------------------------- state
VARIABLES
    pc,          \* where the process is: a prompt it waits at, or a call
    key,         \* self.key is set (COSMOS_KEY is in the environment)
    client,      \* self.client is not None
    database,    \* self.database is not None
    container,   \* self.container is not None
    connected,   \* what connect() returned: "pending", "ok" or "failed"
    store,       \* the documents of the container
    now,         \* the clock
    vibes,       \* the list select_vibe_for_removal() shows at its prompt
    selected,    \* selected_vibe of main(), NoDoc when there is none
    exitCode,    \* the exit code of the process, -1 while it runs
    exitPath,    \* how the process ended
    disconnects, \* how many times disconnect() was called
    created,     \* ids of the documents add_vibe stored and nobody removed
    deleted,     \* ids of created that remove_vibe removed, not stored since
    insertedAt,  \* the pairs <<id, instant>> of the documents add_vibe stored
    last         \* the step just taken: its inputs, store requests, output

vars == << pc, key, client, database, container, connected, store, now,
           vibes, selected, exitCode, exitPath, disconnects, created,
           deleted, insertedAt, last >>

\* the variables the start-up and the end of the process leave alone
data == << store, now, vibes, selected, created, deleted, insertedAt >>

NoDoc == [id |-> 0, title |-> <<>>, description |-> <<>>, category |-> <<>>,
          created_at |-> <<>>, updated_at |-> <<>>, type |-> "none"]

\* a step that asks nothing, sends nothing and prints nothing
NoLast == [op |-> "none", choice |-> 0, title |-> <<>>, description |-> <<>>,
           category |-> <<>>, answer |-> "none", sel |-> 0, arg |-> 0,
           reqs |-> <<>>, exc |-> "none", ret |-> "none", items |-> <<>>,
           out |-> <<>>]

\* the states of the menu loop: the prompts the loop waits at
MenuStates == { "Idle", "Creating", "Selecting", "Confirming" }

\* the positions inside the body of the with statement of main()
InBody(p) == p \in MenuStates \cup { "Check", "Exit" }

\* sys.exit(0) of the KeyboardInterrupt handler
InterruptExitCode == 0
\* sys.exit(1) of __init__, of main() and of the last handler; also the code
\* of an interpreter that ends on an exception no handler catches
FatalExitCode == 1
\* main() returned
NormalExitCode == 0

\* VibesManager.disconnect
Disconnect ==
    /\ disconnects' = disconnects + 1
    /\ IF client
       THEN client' = FALSE /\ database' = FALSE /\ container' = FALSE
       ELSE UNCHANGED << client, database, container >>

\* The process ends.  An exception (or the end of the body) that leaves the
\* body of the with statement runs __exit__, which calls disconnect(); one
\* raised before the body is entered does not.
Leave(code, path, viaExit) ==
    /\ pc' = "done"
    /\ exitCode' = code
    /\ exitPath' = path
    /\ IF viaExit THEN Disconnect
       ELSE UNCHANGED << client, database, container, disconnects >>

Init ==
    /\ pc = "Start"
    /\ key \in BOOLEAN
    /\ client = FALSE /\ database = FALSE /\ container = FALSE
    /\ connected = "pending"
    /\ store \in InitStores
    /\ now = 0
    /\ vibes = <<>>
    /\ selected = NoDoc
    /\ exitCode = -1
    /\ exitPath = "running"
    /\ disconnects = 0
    /\ created = {}
    /\ deleted = {}
    /\ insertedAt = {}
    /\ last = NoLast

\* ------------------------------------------------------------- start-up
\* VibesManager(): __init__ ends the process when the key is missing
Construct ==
    /\ pc = "Start"
    /\ last' = [NoLast EXCEPT !.op = "init"]
    /\ UNCHANGED << key, connected, data >>
    /\ IF ~key
       THEN Leave(FatalExitCode, "credential", FALSE)
       ELSE /\ pc' = "ConnClient"
            /\ UNCHANGED << client, database, container, exitCode, exitPath,
                            disconnects >>

\* connect() caught an exception: it prints the error and returns False
ConnectFails(step) ==
    /\ pc' = "Check"
    /\ connected' = "failed"
    /\ last' = [NoLast EXCEPT !.op = step, !.exc = "Http", !.ret = "False"]

\* __enter__ -> connect(): CosmosClient(...)
ConnectClient ==
    /\ pc = "ConnClient"
    /\ UNCHANGED << key, database, container, data, exitCode,
                    exitPath, disconnects >>
    /\ \/ /\ client' = TRUE
          /\ pc' = "ConnProbe"
          /\ last' = [NoLast EXCEPT !.op = "connect_client"]
          /\ UNCHANGED connected
       \/ /\ ConnectFails("connect_client")
          /\ UNCHANGED client

\* connect(): list(self.client.list_databases())
ConnectProbe ==
    /\ pc = "ConnProbe"
    /\ UNCHANGED << key, client, database, container, data,
                    exitCode, exitPath, disconnects >>
    /\ \/ /\ pc' = "ConnDatabase"
          /\ last' = [NoLast EXCEPT !.op = "connect_probe"]
          /\ UNCHANGED connected
       \/ ConnectFails("connect_probe")

\* connect(): create_database_if_not_exists
ConnectDatabase ==
    /\ pc = "ConnDatabase"
    /\ UNCHANGED << key, client, container, data, exitCode,
                    exitPath, disconnects >>
    /\ \/ /\ database' = TRUE
          /\ pc' = "ConnContainer"
          /\ last' = [NoLast EXCEPT !.op = "connect_database"]
          /\ UNCHANGED connected
       \/ /\ ConnectFails("connect_database")
          /\ UNCHANGED database

\* connect(): create_container_if_not_exists, then return True
ConnectContainer ==
    /\ pc = "ConnContainer"
    /\ UNCHANGED << key, client, database, data, exitCode,
                    exitPath, disconnects >>
    /\ \/ /\ container' = TRUE
          /\ pc' = "Check"
          /\ connected' = "ok"
          /\ last' = [NoLast EXCEPT !.op = "connect_container",
                                    !.ret = "True"]
       \/ /\ ConnectFails("connect_container")
          /\ UNCHANGED container

\* main(): if not vibes_manager.client: ... sys.exit(1)
CheckClient ==
    /\ pc = "Check"
    /\ UNCHANGED << key, connected, data >>
    /\ IF ~client
       THEN /\ Leave(FatalExitCode, "connect", TRUE)
            /\ last' = [NoLast EXCEPT !.op = "check",
                                      !.out = << "E:connect_exit" >>]
       ELSE /\ pc' = "Idle"
            /\ last' = [NoLast EXCEPT !.op = "check"]
            /\ UNCHANGED << client, database, container, exitCode, exitPath,
                            disconnects >>

\* ------------------------------------------------------------ menu loop
\* the process goes on, at position p
Goto(p) ==
    /\ pc' = p
    /\ UNCHANGED << client, database, container, exitCode, exitPath,
                    disconnects >>

\* an exception left a facade method (the assert on self.container): no
\* handler of main() or of the module catches it
Crash == Leave(FatalExitCode, "error", TRUE)

\* the ids add_vibe and remove_vibe leave stored and removed
Track(r, id, stored) ==
    IF r.ret # "True" THEN UNCHANGED << created, deleted, insertedAt >>
    ELSE IF stored THEN /\ created' = created \cup {id}
                        /\ deleted' = deleted \ {id}
                        /\ insertedAt' = insertedAt \cup { << id, now >> }
    ELSE /\ created' = created \ {id}
         /\ deleted' = deleted \cup ({id} \cap created)
         /\ insertedAt' = { p \in insertedAt : p[1] # id }

\* choice "1": the loop goes to the prompts of a new vibe
MenuAdd ==
    /\ pc = "Idle"
    /\ Goto("Creating")
    /\ last' = [NoLast EXCEPT !.op = "menu", !.choice = 1]
    /\ UNCHANGED << key, connected, data >>

\* the prompts of choice "1" with the test "if not title", without strip()
Creating_nostrip ==
    /\ pc = "Creating"
    /\ UNCHANGED << key, connected, now, vibes, selected >>
    /\ \E title \in TitleInputs :
         IF title = <<>>
         THEN /\ Goto("Idle")
              /\ last' = [NoLast EXCEPT !.op = "create", !.title = title,
                                        !.out = << "E:title_empty" >>]
              /\ UNCHANGED << store, created, deleted,
                    insertedAt >>
         ELSE \E description \in DescriptionInputs,
                 category \in CategoryInputs,
                 id \in Ids, fault \in Faults :
                LET r == add_vibe(store, container, id, Strip(title),
                                  Strip(description), Strip(category),
                                  now, now, fault)
                IN /\ store' = r.store
                   /\ Track(r, id, TRUE)
                   /\ last' = [NoLast EXCEPT !.op = "create",
                                 !.title = title,
                                 !.description = description,
                                 !.category = category,
                                 !.reqs = r.reqs, !.exc = r.exc,
                                 !.ret = r.ret, !.out = r.out]
                   /\ IF r.ret = "raise" THEN Crash ELSE Goto("Idle")

\* the three prompts of choice "1", the check of the title and add_vibe
Creating ==
    /\ pc = "Creating"
    /\ UNCHANGED << key, connected, now, vibes, selected >>
    /\ \E title \in TitleInputs :
         IF Strip(title) = <<>>
         THEN /\ Goto("Idle")
              /\ last' = [NoLast EXCEPT !.op = "create", !.title = title,
                                        !.out = << "E:title_empty" >>]
              /\ UNCHANGED << store, created, deleted,
                    insertedAt >>
         ELSE \E description \in DescriptionInputs,
                 category \in CategoryInputs,
                 id \in Ids, fault \in Faults :
                LET r == add_vibe(store, container, id, Strip(title),
                                  Strip(description), Strip(category),
                                  now, now, fault)
                IN /\ store' = r.store
                   /\ Track(r, id, TRUE)
                   /\ last' = [NoLast EXCEPT !.op = "create",
                                 !.title = title,
                                 !.description = description,
                                 !.category = category,
                                 !.reqs = r.reqs, !.exc = r.exc,
                                 !.ret = r.ret, !.out = r.out]
                   /\ IF r.ret = "raise" THEN Crash ELSE Goto("Idle")

\* choice "2": select_vibe_for_removal() lists the vibes; with none to show
\* it returns None and the loop continues, else it waits for the selection
MenuRemove ==
    /\ pc = "Idle"
    /\ UNCHANGED << key, connected, store, now, selected, created, deleted,
                    insertedAt >>
    /\ \E q \in QueryResults(store), fault \in Faults :
         LET r == list_vibes(store, container, q, fault)
         IN IF r.ret = "raise"
            THEN /\ Crash
                 /\ UNCHANGED vibes
                 /\ last' = [NoLast EXCEPT !.op = "menu", !.choice = 2,
                                           !.exc = r.exc, !.ret = r.ret]
            ELSE /\ last' = [NoLast EXCEPT !.op = "menu", !.choice = 2,
                               !.reqs = r.reqs, !.exc = r.exc, !.ret = r.ret,
                               !.items = r.items,
                               !.out = r.out \o
                                  (IF r.items = <<>>
                                   THEN << "no_vibes_to_remove", "cancelled" >>
                                   ELSE << "choices" >>)]
                 /\ IF r.items = <<>>
                    THEN Goto("Idle") /\ UNCHANGED vibes
                    ELSE Goto("Selecting") /\ vibes' = r.items

\* the prompt of select_vibe_for_removal(): a number of the list, or cancel
Select ==
    /\ pc = "Selecting"
    /\ UNCHANGED << key, connected, store, now, created, deleted,
                    insertedAt >>
    /\ vibes' = <<>>
    /\ \E sel \in 0..Len(vibes) :
         IF sel = 0
         THEN /\ Goto("Idle")
              /\ selected' = NoDoc
              /\ last' = [NoLast EXCEPT !.op = "select",
                                        !.out = << "cancelled" >>]
         ELSE /\ Goto("Confirming")
              /\ selected' = vibes[sel]
              /\ last' = [NoLast EXCEPT !.op = "select", !.sel = sel,
                                        !.out = << "details" >>]

\* the removal without the gate of the confirmation: the answer is asked
\* for and not looked at
ConfirmDelete_ungated ==
    /\ pc = "Confirming"
    /\ UNCHANGED << key, connected, now, vibes >>
    /\ selected' = NoDoc
    /\ \E answer \in { "yes", "no" }, fault \in Faults :
         LET r == remove_vibe(store, container, selected.id, fault)
         IN /\ store' = r.store
            /\ Track(r, selected.id, FALSE)
            /\ last' = [NoLast EXCEPT !.op = "confirm", !.answer = answer,
                          !.arg = selected.id,
                          !.reqs = r.reqs, !.exc = r.exc, !.ret = r.ret,
                          !.out = r.out]
            /\ IF r.ret = "raise" THEN Crash ELSE Goto("Idle")

\* the confirmation of the removal and, on yes, remove_vibe
ConfirmDelete ==
    /\ pc = "Confirming"
    /\ UNCHANGED << key, connected, now, vibes >>
    /\ selected' = NoDoc
    /\ \/ /\ Goto("Idle")
          /\ last' = [NoLast EXCEPT !.op = "confirm", !.answer = "no",
                                    !.out = << "deletion_cancelled" >>]
          /\ UNCHANGED << store, created, deleted,
                    insertedAt >>
       \/ \E fault \in Faults :
            LET r == remove_vibe(store, container, selected.id, fault)
            IN /\ store' = r.store
               /\ Track(r, selected.id, FALSE)
               /\ last' = [NoLast EXCEPT !.op = "confirm", !.answer = "yes",
                             !.arg = selected.id,
                             !.reqs = r.reqs, !.exc = r.exc, !.ret = r.ret,
                             !.out = r.out \o
                                (CASE r.ret = "True" -> << "menu_removed" >>
                                   [] r.ret = "False" ->
                                        << "E:menu_remove_failed" >>
                                   [] OTHER -> <<>>)]
               /\ IF r.ret = "raise" THEN Crash ELSE Goto("Idle")

\* choice "3": list_vibes() and display_vibes()
MenuList ==
    /\ pc = "Idle"
    /\ UNCHANGED << key, connected, data >>
    /\ \E q \in QueryResults(store), fault \in Faults :
         LET r == list_vibes(store, container, q, fault)
         IN IF r.ret = "raise"
            THEN /\ Crash
                 /\ last' = [NoLast EXCEPT !.op = "menu", !.choice = 3,
                                           !.exc = r.exc, !.ret = r.ret]
            ELSE /\ Goto("Idle")
                 /\ last' = [NoLast EXCEPT !.op = "menu", !.choice = 3,
                               !.reqs = r.reqs, !.exc = r.exc, !.ret = r.ret,
                               !.items = r.items,
                               !.out = r.out \o display_vibes(r.items)]

\* choice "4" that breaks the loop whatever the answer
MenuExit_unconfirmed ==
    /\ pc = "Idle"
    /\ UNCHANGED << key, connected, data >>
    /\ \E answer \in { "yes", "no" } :
         /\ Goto("Exit")
         /\ last' = [NoLast EXCEPT !.op = "menu", !.choice = 4,
                                   !.answer = answer]

\* choice "4" and the confirmation of the exit: yes breaks the loop
MenuExit ==
    /\ pc = "Idle"
    /\ UNCHANGED << key, connected, data >>
    /\ \E answer \in { "yes", "no" } :
         /\ Goto(IF answer = "yes" THEN "Exit" ELSE "Idle")
         /\ last' = [NoLast EXCEPT !.op = "menu", !.choice = 4,
                                   !.answer = answer]

\* the loop was left: __exit__ disconnects and main() returns
LeaveWith ==
    /\ pc = "Exit"
    /\ Leave(NormalExitCode, "normal", TRUE)
    /\ last' = [NoLast EXCEPT !.op = "return"]
    /\ UNCHANGED << key, connected, data >>

\* KeyboardInterrupt left to the handler of the other exceptions
Interrupt_fatal ==
    /\ pc \notin { "done", "Api" }
    /\ Leave(FatalExitCode, "interrupt", InBody(pc))
    /\ last' = [NoLast EXCEPT !.op = "interrupt"]
    /\ UNCHANGED << key, connected, data >>

\* KeyboardInterrupt, at any point of main()
Interrupt ==
    /\ pc \notin { "done", "Api" }
    /\ Leave(InterruptExitCode, "interrupt", InBody(pc))
    /\ last' = [NoLast EXCEPT !.op = "interrupt"]
    /\ UNCHANGED << key, connected, data >>

\* time passes
Tick ==
    /\ pc # "done"
    /\ now < MaxTime
    /\ now' = now + 1
    /\ last' = [NoLast EXCEPT !.op = "tick"]
    /\ UNCHANGED << pc, key, client, database, container, connected, store,
                    vibes, selected, exitCode, exitPath, disconnects,
                    created, deleted,
                    insertedAt >>

Next ==
    \/ Construct
    \/ ConnectClient
    \/ ConnectProbe
    \/ ConnectDatabase
    \/ ConnectContainer
    \/ CheckClient
    \/ MenuAdd
    \/ Creating
    \/ MenuRemove
    \/ Select
    \/ ConfirmDelete
    \/ MenuList
    \/ MenuExit
    \/ LeaveWith
    \/ Interrupt
    \/ Tick

Spec == Init /\ [][Next]_vars

\* ------------------------------------------- the facade, called directly
\* a VibesManager whose connect() returned True
ApiInit ==
    /\ pc = "Api"
    /\ key = TRUE
    /\ client = TRUE /\ database = TRUE /\ container = TRUE
    /\ connected = "ok"
    /\ store \in InitStores
    /\ now = 0
    /\ vibes = <<>>
    /\ selected = NoDoc
    /\ exitCode = -1
    /\ exitPath = "running"
    /\ disconnects = 0
    /\ created = {}
    /\ deleted = {}
    /\ insertedAt = {}
    /\ last = NoLast

ApiFrame == UNCHANGED << pc, key, client, database, container, connected,
                         vibes, selected, exitCode, exitPath, disconnects >>

ApiAdd ==
    /\ pc = "Api"
    /\ ApiFrame
    /\ UNCHANGED now
    /\ \E title \in ApiTitles, description \in ApiDescriptions,
          category \in CategoryInputs,
          id \in Ids, fault \in Faults :
         LET r == add_vibe(store, container, id, title, description,
                           category, now, now, fault)
         IN /\ store' = r.store
            /\ Track(r, id, TRUE)
            /\ last' = [NoLast EXCEPT !.op = "add_vibe", !.title = title,
                          !.description = description,
                          !.category = category, !.arg = id,
                          !.reqs = r.reqs, !.exc = r.exc, !.ret = r.ret,
                          !.out = r.out]

ApiRemove ==
    /\ pc = "Api"
    /\ ApiFrame
    /\ UNCHANGED now
    /\ \E id \in Ids, fault \in Faults :
         LET r == remove_vibe(store, container, id, fault)
         IN /\ store' = r.store
            /\ Track(r, id, FALSE)
            /\ last' = [NoLast EXCEPT !.op = "remove_vibe", !.arg = id,
                          !.reqs = r.reqs, !.exc = r.exc, !.ret = r.ret,
                          !.out = r.out]

ApiList ==
    /\ pc = "Api"
    /\ ApiFrame
    /\ UNCHANGED << store, now, created, deleted,
                    insertedAt >>
    /\ \E q \in QueryResults(store), fault \in Faults :
         LET r == list_vibes(store, container, q, fault)
         IN last' = [NoLast EXCEPT !.op = "list_vibes",
                       !.reqs = r.reqs, !.exc = r.exc, !.ret = r.ret,
                       !.items = r.items, !.out = r.out]

ApiNext ==
    \/ ApiAdd
    \/ ApiRemove
    \/ ApiList
    \/ Tick

SpecApi == ApiInit /\ [][ApiNext]_vars

\* ----------------------------------------------------------------- claims
\* what a caller of list_vibes() receives when the query q succeeds
Listed(s, q) == list_vibes(s, TRUE, q, "none").items

\* a store call failed for a reason of the service or of the SDK
Faulted(e) == e \in { "Http", "Value" }

\* C1 (SpecApi): a successful add_vibe(title, description, category) with a
\* title that is not empty after trimming, followed by list_vibes(), returns
\* the records listed before and exactly one more, whose title, description
\* and category are the arguments, whose type is "vibe" and whose id is the
\* id of no document the store held before.
C1_CreateThenList ==
    [][ ( /\ last'.op = "add_vibe"
          /\ last'.ret = "True"
          /\ Strip(last'.title) # <<>> )
        => \A qb \in QueryResults(store), qa \in QueryResults(store') :
             LET b == Listed(store, qb)
                 a == Listed(store', qa)
             IN /\ Len(a) = Len(b) + 1
                /\ \E d \in Range(a) :
                     /\ d \notin Range(b)
                     /\ Range(a) = Range(b) \cup {d}
                     /\ d.title = last'.title
                     /\ d.description = last'.description
                     /\ d.category = last'.category
                     /\ d.type = VIBE
                     /\ d.id = last'.arg
                     /\ d.id \notin StoreIds(store) ]_vars

\* a create succeeded on a store that already listed a record
C1_Witness ==
    /\ last.op = "add_vibe"
    /\ last.ret = "True"
    /\ Cardinality(Vibes(store)) >= 2

\* C2 (SpecApi): remove_vibe(id) of a record add_vibe produced succeeds
\* (unless the store call itself fails) and a following list_vibes() does not
\* hold that id; a second remove_vibe(id), with no add_vibe of that id in
\* between, returns False, leaves the store as it was and reports "not found"
\* (or the failure of the store call, when that call fails).
C2_DeleteTwice ==
    [][ last'.op = "remove_vibe"
        => /\ (last'.arg \in created /\ ~Faulted(last'.exc))
                => last'.ret = "True"
           /\ last'.ret = "True"
                => /\ store' = { d \in store : d.id # last'.arg }
                   /\ \A q \in QueryResults(store') :
                        \A i \in DOMAIN Listed(store', q) :
                           Listed(store', q)[i].id # last'.arg
           /\ last'.arg \in deleted
                => /\ last'.ret = "False"
                   /\ store' = store
                   /\ ~Faulted(last'.exc)
                        => /\ last'.exc = "NotFound"
                           /\ last'.out = << "E:not_found" >> ]_vars

\* the second removal of a record that was created and removed
C2_Witness ==
    /\ last.op = "remove_vibe"
    /\ last.arg \in deleted
    /\ last.exc = "NotFound"
    /\ last.ret = "False"

\* the steps of the menu loop that cancel a removal: the list is empty, the
\* selection is "cancel", the confirmation is answered no
RemovalCancelled ==
    \/ pc = "Idle" /\ last'.op = "menu" /\ last'.choice = 2 /\ pc' = "Idle"
    \/ pc = "Selecting" /\ last'.op = "select" /\ last'.sel = 0
    \/ pc = "Confirming" /\ last'.op = "confirm" /\ last'.answer = "no"

HasRequest(reqs, kind) == \E i \in DOMAIN reqs : reqs[i].op = kind

\* C3 (Spec): the store receives a delete request only in the step that
\* answers yes to the confirmation, which follows the selection of a record
\* in the same iteration of the menu, and the id it names is the id of the
\* record selected; a removal that is cancelled (empty list, "cancel", answer
\* no) sends no delete request and leaves the store as it was.
C3_DeleteOnlyAfterConfirm ==
    /\ [](selected # NoDoc => pc \in { "Confirming", "done" })
    /\ [][ /\ HasRequest(last'.reqs, "delete")
              => /\ pc = "Confirming"
                 /\ last'.answer = "yes"
                 /\ selected \in Vibes(store)
                 /\ last'.reqs = << [op |-> "delete", id |-> selected.id] >>
           /\ RemovalCancelled
              => /\ ~HasRequest(last'.reqs, "delete")
                 /\ store' = store ]_vars

\* a record was selected, the answer was yes and the record is gone
C3_Witness ==
    /\ last.op = "confirm"
    /\ last.answer = "yes"
    /\ last.ret = "True"
    /\ last.arg \notin StoreIds(store)

\* C4 (Spec): a title that is empty or made of whitespace is refused before
\* any store call: no request is sent, the store is left as it was and the
\* loop is back at the main menu; every vibe stored through the menu has a
\* title that is not empty.
C4_EmptyTitleRejected ==
    /\ [](\A d \in Vibes(store) : d.title # <<>>)
    /\ [][ (last'.op = "create" /\ Strip(last'.title) = <<>>)
           => /\ last'.reqs = <<>>
              /\ store' = store
              /\ pc' = "Idle" ]_vars

\* a title of one space was typed and refused
C4_Witness ==
    /\ last.op = "create"
    /\ last.title = << 32 >>
    /\ last.out = << "E:title_empty" >>
    /\ pc = "Idle"

\* C5 (Spec): when connect() fails, at whichever of its steps, the process
\* ends with an exit code that is not zero after that one attempt, without
\* showing the main menu and without sending a create, delete or query
\* request (an interrupt of the operator aside, which ends it first).
C5_ConnectFailureIsFatal ==
    connected = "failed"
    => /\ pc \in { "Check", "done" }
       /\ last.reqs = <<>>
       /\ (pc = "done" /\ exitPath # "interrupt") => exitCode # 0

\* the operations of the menu that call the store
StoreOperation(l) ==
    \/ l.op = "create" /\ l.reqs # <<>>
    \/ l.op = "confirm" /\ l.answer = "yes"
    \/ l.op = "menu" /\ l.choice \in { 2, 3 }

\* the exceptions the store raises to report that an operation failed
Failures == { "Exists", "NotFound", "Http", "Value" }

C7_ListFailureDistinguishable ==
    (last.op = "list_vibes" /\ last.exc \in Failures /\ Vibes(store) # {})
    => \A q \in QueryResults({}) :
         << last.ret, last.items >> #
            << list_vibes({}, TRUE, q, "none").ret, Listed({}, q) >>

\* C8 as stated (Spec): an interrupt of the operator ends the process with an
\* exit code that is not zero, as do the missing credential and the failed
\* connection.
C8_NonZeroExit ==
    (pc = "done" /\ exitPath \in { "interrupt", "credential", "connect" })
    => exitCode # 0

\* C8 as amended (Spec): an interrupt of the operator, at any point of
\* main(), ends the process with exit code 0; the exits of the start-up
\* (missing credential, no client after connect()) end it with exit code 1.
C8_ExitCodes ==
    /\ [][ (pc # "done" /\ last'.op = "interrupt")
           => pc' = "done" /\ exitPath' = "interrupt" ]_vars
    /\ []( pc = "done"
           => /\ exitPath = "interrupt" => exitCode = 0
              /\ exitPath \in { "credential", "connect" } => exitCode = 1 )

\* the operator interrupted the program after it had stored a vibe
C8_Witness ==
    /\ pc = "done"
    /\ exitPath = "interrupt"
    /\ last.op = "interrupt"
    /\ created # {}

\* C9 (Spec): when the process has ended, on whichever path, the handles
\* client, database and container are all None, and disconnect() was called
\* at most once.
C9_HandlesReleased ==
    pc = "done"
    => /\ ~client /\ ~database /\ ~container
       /\ disconnects <= 1

\* C10 (Spec): the menu loop moves among Idle, Creating, Selecting and
\* Confirming; an operation that completes or is cancelled leaves the loop at
\* Idle; the loop is left (Exit) only from Idle, by choice "4" answered yes;
\* answered no, the loop stays at Idle and the store is as it was.
C10_MenuStateMachine ==
    [][ /\ (pc' = "Exit" /\ pc # "Exit")
           => pc = "Idle" /\ last'.choice = 4 /\ last'.answer = "yes"
        /\ (pc = "Idle" /\ last'.choice = 4 /\ last'.answer = "no")
           => pc' = "Idle" /\ store' = store
        /\ (pc \in MenuStates /\ pc' # "done")
           => pc' \in MenuStates \cup { "Exit" }
        /\ (pc = "Idle" /\ pc' \in MenuStates)
           => \/ pc' = "Idle"
              \/ pc' = "Creating" /\ last'.choice = 1
              \/ pc' = "Selecting" /\ last'.choice = 2
        /\ (pc = "Creating" /\ last'.op = "create" /\ pc' # "done")
           => pc' = "Idle"
        /\ (pc = "Selecting" /\ last'.op = "select" /\ pc' # "done")
           => pc' = IF last'.sel = 0 THEN "Idle" ELSE "Confirming"
        /\ (pc = "Confirming" /\ last'.op = "confirm" /\ pc' # "done")
           => pc' = "Idle"
        /\ (pc' \in MenuStates /\ pc \notin MenuStates)
           => pc = "Check" /\ pc' = "Idle" ]_vars

\* the loop was left after a removal, by choice "4" answered yes
C10_Witness ==
    /\ pc = "Exit"
    /\ last.choice = 4
    /\ last.answer = "yes"
    /\ deleted # {}

\* ------------------------------------- the facade, for the order of a list
\* SpecOrder: add_vibe, remove_vibe and list_vibes of a connected manager,
\* with one title and one description and the ids of OrderIds.
OrderAdd ==
    /\ pc = "Api"
    /\ ApiFrame
    /\ UNCHANGED now
    /\ \E id \in OrderIds, fault \in Faults :
         LET r == add_vibe(store, container, id, << 97 >>, << 100, 32 >>,
                           << 103 >>, now, now, fault)
         IN /\ store' = r.store
            /\ Track(r, id, TRUE)
            /\ last' = [NoLast EXCEPT !.op = "add_vibe", !.title = << 97 >>,
                          !.description = << 100, 32 >>,
                          !.category = << 103 >>, !.arg = id,
                          !.reqs = r.reqs, !.exc = r.exc, !.ret = r.ret,
                          !.out = r.out]

OrderRemove ==
    /\ pc = "Api"
    /\ ApiFrame
    /\ UNCHANGED now
    /\ \E id \in OrderIds, fault \in Faults :
         LET r == remove_vibe(store, container, id, fault)
         IN /\ store' = r.store
            /\ Track(r, id, FALSE)
            /\ last' = [NoLast EXCEPT !.op = "remove_vibe", !.arg = id,
                          !.reqs = r.reqs, !.exc = r.exc, !.ret = r.ret,
                          !.out = r.out]

OrderNext ==
    \/ OrderAdd
    \/ OrderRemove
    \/ ApiList
    \/ Tick

SpecOrder == ApiInit /\ [][OrderNext]_vars

\* the instant at which add_vibe stored the document of this id
InsertInstant(id) == CHOOSE t \in Times : << id, t >> \in insertedAt

\* C11 (SpecOrder): after any creates and deletes, a list_vibes() whose query
\* succeeds returns the stored documents of type "vibe", each once, newest
\* first: of two adjacent records the first was not stored earlier than the
\* second, and its created_at is not the smaller one; so records stored at
\* instants t1 < t2 < t3 come in the order t3, t2, t1.
C11_ListNewestFirst ==
    (last.op = "list_vibes" /\ last.exc = "none")
    => /\ Range(last.items) = { d \in store : d.type = "vibe" }
       /\ Len(last.items) = Cardinality({ d \in store : d.type = "vibe" })
       /\ \A i \in DOMAIN last.items :
            /\ last.items[i].id \in created
            /\ last.items[i].created_at =
                  isoformat(InsertInstant(last.items[i].id))
       /\ \A i \in 1..(Len(last.items) - 1) :
            /\ InsertInstant(last.items[i].id) >=
                  InsertInstant(last.items[i + 1].id)
            /\ StrLeq(last.items[i + 1].created_at, last.items[i].created_at)

\* three vibes stored at three instants are listed, the last stored first
C11_Witness ==
    /\ last.op = "list_vibes"
    /\ last.exc = "none"
    /\ Len(last.items) = 3
    /\ InsertInstant(last.items[1].id) > InsertInstant(last.items[2].id)
    /\ InsertInstant(last.items[2].id) > InsertInstant(last.items[3].id)

====
